---- MODULE Spec2Model ----
(***************************************************************************)
(* A model of the personal-trainer multi-agent pipeline: the schema        *)
(* contracts of schemas.py, the calendar stub of tools.py, and the         *)
(* structured call protocol, the five agent nodes and the graph wiring of  *)
(* pipeline.py.                                                            *)
(*                                                                         *)
(* JSON values are modelled by what the code can observe of them:          *)
(*   - a JSON object is a TLA+ record whose DOMAIN is its key set, so an   *)
(*     absent key really is absent;                                        *)
(*   - a scalar or a list of strings is a string token (see the token      *)
(*     sets below); the token "null" is JSON null / Python None;           *)
(*   - an optional value (a key of the shared state, a return value) is a  *)
(*     sequence of length 0 (absent) or 1 (present).                       *)
(***************************************************************************)
EXTENDS Integers, Sequences, FiniteSets, TLC

\* ------------------------------------------------------------------ bounds

\* Largest max_retries tried when _call_agent_with_retries is called directly.
MaxR == 3
\* Longest list of scheduled sessions in a schedule.
MaxSessions == 2

\* --------------------------------------------------------- program constants

\* pipeline.py:51, max_retries: int = 2 (the agents never override it).
DefaultMaxRetries == 2

\* ------------------------------------------------------------- JSON tokens

\* JSON numbers that are integers.
IntLit == {"3", "30", "45"}
\* JSON strings; "'45'" is the string "45", which pydantic's lax mode turns
\* into the integer 45, "'abc'" is a string that is no number.
StrLit == {"low", "medium", "high", "extreme", "strength", "cardio", "hybrid",
           "rehab", "pass", "review", "fail", "maybe", "2026-02-11",
           "2026-02-13", "18:00", "Cardio A", "Cardio B", "'45'", "'abc'"}
\* Lists of strings (List[str]) and lists of objects (List[Dict[str, Any]]).
StrListLit == {"[]", "[knee pain]", "[run 10K]"}
\* The empty list is a list of either kind.
DictListLit == {"[]", "[{}x3]", "[{}x1]"}

\* ------------------------------------------------------- schemas.py: fields

\* (Mutant: Field(pattern=...) left out, the field a plain str.)
FieldOk_PatternIgnored(type, v) ==
    CASE type = "int" -> v \in IntLit \/ v = "'45'"
      [] type = "List[str]" -> v \in StrListLit
      [] type = "List[Dict]" -> v \in DictListLit
      [] OTHER -> v \in StrLit

\* A field of a pydantic model validates (lax mode) when FieldOk holds, and
\* model_dump() then yields FieldDump.
FieldOk(type, v) ==
    CASE type = "int" -> v \in IntLit \/ v = "'45'"
      [] type = "str" -> v \in StrLit
      [] type = "List[str]" -> v \in StrListLit
      [] type = "List[Dict]" -> v \in DictListLit
      [] type = "^(low|medium|high)$" -> v \in {"low", "medium", "high"}
      [] type = "^(strength|cardio|hybrid|rehab)$" ->
             v \in {"strength", "cardio", "hybrid", "rehab"}
      [] type = "^(pass|review|fail)$" -> v \in {"pass", "review", "fail"}
      [] OTHER -> FALSE

FieldDump(type, v) == IF type = "int" /\ v = "'45'" THEN "45" ELSE v

\* One validation error of a ValidationError: the field (of item `index` of a
\* list field, of nested field `sub`; 0 and "" when not nested) and its kind.
Violation(field, index, sub, kind) ==
    [field |-> field, index |-> index, sub |-> sub, kind |-> kind]

\* Every violation of a flat model (extra="forbid", every field required):
\* missing fields, undeclared fields, and fields of the wrong type or value.
FlatViolations(fields, p, field, index) ==
    LET at(f, kind) == IF field = "" THEN Violation(f, 0, "", kind)
                       ELSE Violation(field, index, f, kind)
    IN  {at(f, "missing") : f \in DOMAIN fields \ DOMAIN p}
        \cup {at(f, "extra_forbidden") : f \in DOMAIN p \ DOMAIN fields}
        \cup {at(f, "invalid") :
                f \in {g \in DOMAIN fields \cap DOMAIN p : ~FieldOk(fields[g], p[g])}}

FlatDump(fields, p) == [f \in DOMAIN fields |-> FieldDump(fields[f], p[f])]

UserProfile ==
    [medical_history |-> "List[str]", short_term_goals |-> "List[str]",
     long_term_goals |-> "List[str]", availability |-> "List[Dict]"]

MedicalSafetyOutput ==
    [risk_level |-> "^(low|medium|high)$", contraindicated_exercises |-> "List[str]",
     recommended_focus_areas |-> "List[str]", warnings |-> "List[str]"]

SessionTemplate ==
    [name |-> "str", duration_minutes |-> "int", exercise_categories |-> "List[str]",
     intensity |-> "^(low|medium|high)$"]

\* The scalar fields of WorkoutPlanOutput; session_templates is nested.
WorkoutPlanOutput ==
    [plan_type |-> "^(strength|cardio|hybrid|rehab)$", weekly_sessions |-> "int"]

\* (Mutant: duration_minutes not declared.)
ScheduledSession_NoDuration == [date |-> "str", start_time |-> "str", session_name |-> "str"]

ScheduledSession ==
    [date |-> "str", start_time |-> "str", duration_minutes |-> "int",
     session_name |-> "str"]

EvaluationScores ==
    [safety |-> "int", goal_alignment |-> "int", realism |-> "int",
     schedule_fit |-> "int", clarity |-> "int"]

\* The scalar fields of EvaluationOutput; scores is nested.
EvaluationOutput == [issues |-> "List[str]", verdict |-> "^(pass|review|fail)$"]

\* The nested fields of each output model: field -> <<model of the items,
\* whether the field is a list of them>>.
Nested(model) ==
    CASE model = "WorkoutPlanOutput" ->
             [session_templates |-> [fields |-> SessionTemplate, list |-> TRUE]]
      [] model = "SchedulingOutput" ->
             [scheduled_sessions |-> [fields |-> ScheduledSession, list |-> TRUE]]
      [] model = "EvaluationOutput" ->
             [scores |-> [fields |-> EvaluationScores, list |-> FALSE]]
      [] OTHER -> <<>>

Scalars(model) ==
    CASE model = "UserProfile" -> UserProfile
      [] model = "MedicalSafetyOutput" -> MedicalSafetyOutput
      [] model = "WorkoutPlanOutput" -> WorkoutPlanOutput
      [] model = "EvaluationOutput" -> EvaluationOutput
      [] OTHER -> <<>>

\* A nested object is modelled as a list of one item.
Items(nf, v) == IF nf.list THEN v ELSE <<v>>

\* model.model_validate(p): the set of violations, empty when p validates.
Violations(model, p) ==
    LET scal == Scalars(model)
        nest == Nested(model)
        all == DOMAIN scal \cup DOMAIN nest
    IN  {Violation(f, 0, "", "missing") : f \in all \ DOMAIN p}
        \cup {Violation(f, 0, "", "extra_forbidden") : f \in DOMAIN p \ all}
        \cup {Violation(f, 0, "", "invalid") :
                f \in {g \in DOMAIN scal \cap DOMAIN p : ~FieldOk(scal[g], p[g])}}
        \cup UNION {UNION {FlatViolations(nest[f].fields, Items(nest[f], p[f])[i], f, i) :
                             i \in 1..Len(Items(nest[f], p[f]))} :
                      f \in DOMAIN nest \cap DOMAIN p}

\* model.model_validate(p).model_dump() of a payload p that validates.
ModelDump(model, p) ==
    LET scal == Scalars(model)
        nest == Nested(model)
    IN  [f \in DOMAIN scal \cup DOMAIN nest |->
           IF f \in DOMAIN scal THEN FieldDump(scal[f], p[f])
           ELSE IF nest[f].list
                THEN [i \in 1..Len(p[f]) |-> FlatDump(nest[f].fields, p[f][i])]
                ELSE FlatDump(nest[f].fields, p[f])]

\* --------------------------------------------------------- inputs: payloads

\* An optional value: <<>> is absent, <<v>> is present with value v.
None == <<>>
Some(v) == <<v>>
Opt(S) == {None} \cup {Some(v) : v \in S}

\* All sequences over S of length at most n.
RECURSIVE SeqsUpTo(_, _)
SeqsUpTo(S, n) ==
    IF n = 0 THEN {<<>>}
    ELSE LET shorter == SeqsUpTo(S, n - 1)
         IN  shorter \cup {Append(q, e) : q \in {r \in shorter : Len(r) = n - 1}, e \in S}

\* User profiles handed to the pipeline: two that validate, one that lacks a
\* field, one with an undeclared field.
ProfileA ==
    [medical_history |-> "[knee pain]", short_term_goals |-> "[run 10K]",
     long_term_goals |-> "[run 10K]", availability |-> "[{}x3]"]
ProfileB ==
    [medical_history |-> "[]", short_term_goals |-> "[]",
     long_term_goals |-> "[run 10K]", availability |-> "[]"]
ProfileNoAvailability ==
    [medical_history |-> "[knee pain]", short_term_goals |-> "[run 10K]",
     long_term_goals |-> "[run 10K]"]
ProfileExtra ==
    [medical_history |-> "[knee pain]", short_term_goals |-> "[run 10K]",
     long_term_goals |-> "[run 10K]", availability |-> "[{}x3]", age |-> "30"]
ProfilePool == {ProfileA, ProfileB, ProfileNoAvailability, ProfileExtra}

\* Scheduled sessions as a service (or a direct caller of the calendar agent)
\* may supply them: two that validate (one needing coercion of its
\* duration), and four that do not.
SessA ==
    [date |-> "2026-02-11", start_time |-> "18:00", duration_minutes |-> "30",
     session_name |-> "Cardio A"]
SessB ==
    [date |-> "2026-02-13", start_time |-> "18:00", duration_minutes |-> "'45'",
     session_name |-> "Cardio B"]
SessNoDuration ==
    [date |-> "2026-02-11", start_time |-> "18:00", session_name |-> "Cardio A"]
SessNullDuration ==
    [date |-> "2026-02-13", start_time |-> "18:00", duration_minutes |-> "null",
     session_name |-> "Cardio B"]
SessNoDate ==
    [start_time |-> "18:00", duration_minutes |-> "30", session_name |-> "Cardio A"]
SessExtra ==
    [date |-> "2026-02-11", start_time |-> "18:00", duration_minutes |-> "45",
     session_name |-> "Cardio A", location |-> "low"]
SessionPool == {SessA, SessB, SessNoDuration, SessNullDuration, SessNoDate, SessExtra}

\* Every schedule object over the pool (validated or not).
RawSchedules == {[scheduled_sessions |-> q] : q \in SeqsUpTo(SessionPool, MaxSessions)}
\* A schedule object without its scheduled_sessions key.
ScheduleNoSessions == [sessions |-> <<>>]

MedicalOk1 ==
    [risk_level |-> "low", contraindicated_exercises |-> "[]",
     recommended_focus_areas |-> "[knee pain]", warnings |-> "[]"]
MedicalOk2 ==
    [risk_level |-> "high", contraindicated_exercises |-> "[knee pain]",
     recommended_focus_areas |-> "[]", warnings |-> "[knee pain]"]
MedicalPool ==
    {MedicalOk1, MedicalOk2,
     [risk_level |-> "low", contraindicated_exercises |-> "[]",
      recommended_focus_areas |-> "[]"],
     [MedicalOk1 EXCEPT !.risk_level = "extreme"],
     [risk_level |-> "low", contraindicated_exercises |-> "[]",
      recommended_focus_areas |-> "[]", warnings |-> "[]", notes |-> "low"],
     [risk_level |-> "extreme", contraindicated_exercises |-> "null",
      recommended_focus_areas |-> "[]", notes |-> "low"]}

TemplateOk ==
    [name |-> "Cardio A", duration_minutes |-> "'45'", exercise_categories |-> "[]",
     intensity |-> "medium"]
PlanOk1 ==
    [plan_type |-> "cardio", weekly_sessions |-> "3", session_templates |-> <<TemplateOk>>]
PlanOk2 ==
    [plan_type |-> "rehab", weekly_sessions |-> "'45'", session_templates |-> <<>>]
PlanPool ==
    {PlanOk1, PlanOk2,
     [weekly_sessions |-> "3", session_templates |-> <<TemplateOk>>],
     [PlanOk1 EXCEPT !.plan_type = "low"],
     [PlanOk1 EXCEPT !.weekly_sessions = "'abc'"],
     [PlanOk1 EXCEPT !.session_templates = <<[TemplateOk EXCEPT !.intensity = "extreme"]>>],
     [plan_type |-> "cardio", weekly_sessions |-> "3", session_templates |-> <<>>,
      notes |-> "low"]}

\* The service answers with every schedule of valid sessions, and with some
\* that do not validate.
SchedulePool ==
    {[scheduled_sessions |-> q] : q \in SeqsUpTo({SessA, SessB}, MaxSessions)}
    \cup {ScheduleNoSessions,
          [scheduled_sessions |-> <<SessA>>, notes |-> "low"],
          [scheduled_sessions |-> <<SessNoDuration>>],
          [scheduled_sessions |-> <<SessA, SessNullDuration>>],
          [scheduled_sessions |-> <<SessExtra>>]}

ScoresOk ==
    [safety |-> "3", goal_alignment |-> "3", realism |-> "'45'", schedule_fit |-> "3",
     clarity |-> "3"]
EvalOk1 == [scores |-> ScoresOk, issues |-> "[]", verdict |-> "pass"]
EvalOk2 == [scores |-> ScoresOk, issues |-> "[knee pain]", verdict |-> "fail"]
EvalPool ==
    {EvalOk1, EvalOk2,
     [scores |-> ScoresOk, issues |-> "[]"],
     [EvalOk1 EXCEPT !.verdict = "maybe"],
     [EvalOk1 EXCEPT !.scores =
        [safety |-> "3", goal_alignment |-> "3", realism |-> "3", schedule_fit |-> "3"]],
     [scores |-> ScoresOk, issues |-> "[]", verdict |-> "pass", notes |-> "low"]}

\* The JSON objects a service may answer with when asked for `model`.
PayloadPool(model) ==
    CASE model = "MedicalSafetyOutput" -> MedicalPool
      [] model = "WorkoutPlanOutput" -> PlanPool
      [] model = "SchedulingOutput" -> SchedulePool
      [] model = "EvaluationOutput" -> EvalPool

\* The objects a service may also send inside a markdown fence: one that
\* validates and one that does not.
FencedPool(model) ==
    CASE model = "MedicalSafetyOutput" -> {MedicalOk2, [MedicalOk1 EXCEPT !.risk_level = "extreme"]}
      [] model = "WorkoutPlanOutput" -> {PlanOk2, [PlanOk1 EXCEPT !.plan_type = "low"]}
      [] model = "SchedulingOutput" -> {[scheduled_sessions |-> <<SessB>>], ScheduleNoSessions}
      [] model = "EvaluationOutput" -> {EvalOk2, [EvalOk1 EXCEPT !.verdict = "maybe"]}

\* What one llm.invoke(messages) can do: answer with a JSON object, bare or
\* inside a markdown code fence, answer with text that holds no JSON, or
\* raise (a transport failure).
Responses(model) ==
    {[kind |-> "json", body |-> Some(p)] : p \in PayloadPool(model)}
    \cup {[kind |-> "fenced_json", body |-> Some(p)] : p \in FencedPool(model)}
    \cup {[kind |-> "text", body |-> None], [kind |-> "raise", body |-> None]}

\* ------------------------------------------------------------------- state

Keys ==
    {"user_profile", "user_confirmation", "medical_safety", "workout_plan", "schedule",
     "evaluation", "calendar_events"}
Nodes ==
    {"medical_safety", "workout_planning", "scheduling", "evaluation",
     "calendar_integration"}
LlmNodes == Nodes \ {"calendar_integration"}

VARIABLES
    mode,           \* how the code is driven: "graph" (app.invoke on the compiled
                    \* graph), "step" (one agent function called on a state),
                    \* "call" (_call_agent_with_retries called on its own),
                    \* "twice" (one agent function called on a state and then
                    \* called again, the service being deterministic)
    node,           \* the node being executed (in "call" mode: whose output model)
    pc,             \* "begin", "llm" (in the retry loop), "tool" (in the calendar
                    \* loop), "done" (returned), "failed" (an exception left)
    state,          \* the AgentState dict: key -> optional value
    init_state,     \* the state the run was started with
    max_retries,    \* _call_agent_with_retries: the parameter
    attempt,        \* _call_agent_with_retries: the loop variable
    messages,       \* _call_agent_with_retries: the conversation
    last_error,     \* _call_agent_with_retries: last_error
    response,       \* _call_agent_with_retries: what llm.invoke last answered
    ret,            \* what the last _call_agent_with_retries returned, if it did
    created_events, \* calendar_integration_agent: the local list
    error,          \* the exception that ended the run, "none" if none did
    error_args,     \* what that exception says (its message), if one was raised
    llm_calls,      \* llm.invoke calls made by the current _call_agent_with_retries
    run_llm_calls,  \* llm.invoke calls made since the start
    bad_responses,  \* of those, the ones that raised or were answered invalidly
    adapter_calls,  \* the sessions passed to create_calendar_event, in order
    calendar,       \* the events create_calendar_event has created, in order
    trail,          \* the nodes executed since the start, in order
    invocation,     \* "twice" mode: 1 in the first call of the agent, 2 in the second
    first_state,    \* "twice" mode: the state the first call returned, once it has
    service_log     \* "twice" mode: the requests the service has answered, each
                    \* with its answer (the service is deterministic)

vars ==
    <<mode, node, pc, state, init_state, max_retries, attempt, messages, last_error,
      response, ret, created_events, error, error_args, llm_calls, run_llm_calls,
      bad_responses, adapter_calls, calendar, trail, invocation, first_state, service_log>>

\* ------------------------------------------------------------------ tools.py

\* (Mutant: the check of duration_minutes left out.)
create_calendar_event_Unchecked(session) ==
    LET duration == IF "duration_minutes" \in DOMAIN session
                    THEN session.duration_minutes ELSE "null"
    IN  IF ~({"date", "start_time", "session_name"} \subseteq DOMAIN session) THEN None
        ELSE Some([event_id |-> <<"evt", session.date, session.start_time>>,
                   title |-> session.session_name,
                   date |-> session.date,
                   start_time |-> session.start_time,
                   duration_minutes |-> duration])

\* create_calendar_event(session): the event record, or None when it raises
\* KeyError (duration_minutes absent or null, or another key absent).
create_calendar_event(session) ==
    LET duration == IF "duration_minutes" \in DOMAIN session
                    THEN session.duration_minutes ELSE "null"
    IN  IF duration = "null" THEN None
        ELSE IF ~({"date", "start_time", "session_name"} \subseteq DOMAIN session) THEN None
        ELSE Some([event_id |-> <<"evt", session.date, session.start_time>>,
                   title |-> session.session_name,
                   date |-> session.date,
                   start_time |-> session.start_time,
                   duration_minutes |-> duration])

\* What the KeyError of create_calendar_event says: the message of line 17,
\* or the key a subscript of lines 19-22 did not find (date first).
create_calendar_event_KeyError(session) ==
    LET duration == IF "duration_minutes" \in DOMAIN session
                    THEN session.duration_minutes ELSE "null"
    IN  IF duration = "null"
        THEN [message |-> "duration_minutes is required to create a calendar event"]
        ELSE [key |-> CHOOSE k \in {"date", "start_time", "session_name"} \ DOMAIN session :
                        \/ k = "date"
                        \/ k = "start_time" /\ "date" \in DOMAIN session
                        \/ k = "session_name" /\
                               {"date", "start_time"} \subseteq DOMAIN session]

\* ------------------------------------------- pipeline.py: the call protocol

\* The content of a message is an object: a text, or the payload serialized.
SystemMessage == [role |-> "system", content |-> [text |-> "prompt + format instructions"]]
\* HumanMessage(content=json.dumps(user_payload)).
PayloadMessage(user_payload) == [role |-> "human", content |-> user_payload]
CorrectionMessage ==
    [role |-> "human", content |-> [text |-> "Your last response failed schema validation."]]

\* (Mutant: the list of messages shared between calls, a corrective message
\* of an earlier call still in it.)
InitialMessages_Stale(user_payload) ==
    <<SystemMessage, PayloadMessage(user_payload), CorrectionMessage>>

\* The conversation _call_agent_with_retries starts with.
InitialMessages(user_payload) == <<SystemMessage, PayloadMessage(user_payload)>>

\* (Mutant: the loop written range(max_retries).)
Attempts_OneFewer(R) == R

\* The number of iterations of the retry loop: range(max_retries + 1).
Attempts(R) == R + 1

\* (Mutant: the count of attempts returned in place of the count of retries.)
RetryCount_Attempts(a) == a + 1

\* The retry count returned with a payload accepted in iteration `a`.
RetryCount(a) == a

\* parser.parse(response.content): the JSON object, bare or taken out of a
\* markdown fence, or None when the text holds none (OutputParserException,
\* a ValueError).
Parse(resp) == IF resp.kind \in {"json", "fenced_json"} THEN resp.body ELSE None

\* The exception the try block of one iteration catches for response resp,
\* None when it returns. (str() of a pydantic ValidationError starts with the
\* count of errors and the name of the model, then lists the errors.)
AttemptError(model, resp) ==
    IF Parse(resp) = None
    THEN Some([type |-> "OutputParserException", errors |-> {}])
    ELSE IF Violations(model, Parse(resp)[1]) # {}
         THEN Some([type |-> "ValidationError", title |-> model,
                    errors |-> Violations(model, Parse(resp)[1])])
         ELSE None

\* (Mutant: only the first error kept.)
RecordError_KeepsFirst(previous, exc) == IF previous = None THEN exc ELSE previous

\* last_error = str(exc): the except block overwrites what an earlier
\* iteration recorded.
RecordError(previous, exc) == exc

\* RuntimeError(f"Agent output validation failed: {last_error}").
RuntimeErrorArgs(last) ==
    Some([message |-> "Agent output validation failed: ", last_error |-> last])

\* What an exception of llm.invoke says is up to the client library.
TransportErrorArgs == Some([raised_by |-> "llm.invoke"])

OutputModel(n) ==
    CASE n = "medical_safety" -> "MedicalSafetyOutput"
      [] n = "workout_planning" -> "WorkoutPlanOutput"
      [] n = "scheduling" -> "SchedulingOutput"
      [] n = "evaluation" -> "EvaluationOutput"

\* ------------------------------------------------ pipeline.py: the agents

\* (Mutant: workout_planning_agent assigning to medical_safety.)
OwnedKey_PlanOverwritesSafety(n) ==
    CASE n = "medical_safety" -> "medical_safety"
      [] n = "workout_planning" -> "medical_safety"
      [] n = "scheduling" -> "schedule"
      [] n = "evaluation" -> "evaluation"
      [] n = "calendar_integration" -> "calendar_events"

\* The key of the state an agent assigns.
OwnedKey(n) ==
    CASE n = "medical_safety" -> "medical_safety"
      [] n = "workout_planning" -> "workout_plan"
      [] n = "scheduling" -> "schedule"
      [] n = "evaluation" -> "evaluation"
      [] n = "calendar_integration" -> "calendar_events"

\* The agents that start with UserProfile.model_validate(state["user_profile"]).
ReadsProfile(n) == n \in {"medical_safety", "workout_planning", "scheduling"}

\* The keys an agent subscripts from the state to build its payload.
PayloadKeys(n) ==
    CASE n = "medical_safety" -> {}
      [] n = "workout_planning" -> {"medical_safety"}
      [] n = "scheduling" -> {"workout_plan"}
      [] n = "evaluation" -> {"medical_safety", "workout_plan", "schedule"}

\* What an LLM agent does before it calls _call_agent_with_retries: "ok", or
\* the exception it raises.
Prelude(n, st) ==
    IF ReadsProfile(n) /\ st["user_profile"] = None THEN "KeyError"
    ELSE IF ReadsProfile(n) /\ Violations("UserProfile", st["user_profile"][1]) # {}
         THEN "ValidationError"
         ELSE IF \E k \in PayloadKeys(n) : st[k] = None THEN "KeyError" ELSE "ok"

\* What the exception of Prelude says: the key a subscript did not find (the
\* profile is read first, then the payload's keys in the order written), or
\* the errors of the profile.
PreludeArgs(n, st) ==
    IF ReadsProfile(n) /\ st["user_profile"] = None THEN Some([key |-> "user_profile"])
    ELSE IF ReadsProfile(n) /\ Violations("UserProfile", st["user_profile"][1]) # {}
         THEN Some([type |-> "ValidationError", title |-> "UserProfile",
                    errors |-> Violations("UserProfile", st["user_profile"][1])])
         ELSE LET order == <<"medical_safety", "workout_plan", "schedule">>
                  missing == {i \in DOMAIN order :
                                order[i] \in PayloadKeys(n) /\ st[order[i]] = None}
              IN  Some([key |-> order[CHOOSE i \in missing : \A j \in missing : i <= j]])

\* (Mutant: medical_safety_agent also sends what the state holds under its
\* own key.)
Payload_WithOwnOutput(n, st) ==
    LET user_profile == ModelDump("UserProfile", st["user_profile"][1])
    IN  CASE n = "medical_safety" -> 
                 [medical_history |-> user_profile.medical_history,
                  previous |-> st["medical_safety"]]
          [] n = "workout_planning" ->
                 [medical_safety |-> st["medical_safety"][1],
                  short_term_goals |-> user_profile.short_term_goals,
                  long_term_goals |-> user_profile.long_term_goals]
          [] n = "scheduling" ->
                 [workout_plan |-> st["workout_plan"][1],
                  availability |-> user_profile.availability]
          [] n = "evaluation" ->
                 [medical_safety |-> st["medical_safety"][1],
                  workout_plan |-> st["workout_plan"][1],
                  schedule |-> st["schedule"][1]]

\* The payload an LLM agent hands to _call_agent_with_retries (Prelude being
\* "ok"): fields of the validated profile and the outputs of earlier agents.
Payload(n, st) ==
    LET user_profile == ModelDump("UserProfile", st["user_profile"][1])
    IN  CASE n = "medical_safety" -> [medical_history |-> user_profile.medical_history]
          [] n = "workout_planning" ->
                 [medical_safety |-> st["medical_safety"][1],
                  short_term_goals |-> user_profile.short_term_goals,
                  long_term_goals |-> user_profile.long_term_goals]
          [] n = "scheduling" ->
                 [workout_plan |-> st["workout_plan"][1],
                  availability |-> user_profile.availability]
          [] n = "evaluation" ->
                 [medical_safety |-> st["medical_safety"][1],
                  workout_plan |-> st["workout_plan"][1],
                  schedule |-> st["schedule"][1]]

\* The payload of a direct call of _call_agent_with_retries.
CallPayload == [medical_history |-> "[knee pain]"]

\* (Mutant: only an explicit false declines.)
Confirmed_UnlessFalse(st) == st["user_confirmation"] # Some(FALSE)

\* bool(state.get("user_confirmation")).
Confirmed(st) == st["user_confirmation"] = Some(TRUE)

\* ------------------------------------------------- pipeline.py: the graph

\* (Mutant: the entry point set to the second node.)
EntryPoint_Planning == "workout_planning"

\* graph.set_entry_point("medical_safety").
EntryPoint == "medical_safety"

\* (Mutant: the conditional edge always taken.)
should_create_events_Always(st) == "calendar_integration"

\* (Mutant: the two outcomes of the conditional edge swapped.)
should_create_events_Swapped(st) == IF Confirmed(st) THEN "END" ELSE "calendar_integration"

\* (Mutant: the events created only for a plan the evaluation passed.)
should_create_events_VerdictGated(st) ==
    IF Confirmed(st) /\ st["evaluation"] # None /\ st["evaluation"][1].verdict = "pass"
    THEN "calendar_integration"
    ELSE "END"

should_create_events(st) == IF Confirmed(st) THEN "calendar_integration" ELSE "END"

\* (Mutant: an edge from evaluation back to workout_planning for a plan that
\* did not pass.)
Successor_Replans(n, st) ==
    CASE n = "medical_safety" -> "workout_planning"
      [] n = "workout_planning" -> "scheduling"
      [] n = "scheduling" -> "evaluation"
      [] n = "evaluation" -> IF st["evaluation"][1].verdict # "pass"
                             THEN "workout_planning" ELSE should_create_events(st)
      [] n = "calendar_integration" -> "END"

\* (Mutant: the edge out of workout_planning wired past scheduling.)
Successor_SkipsScheduling(n, st) ==
    CASE n = "medical_safety" -> "workout_planning"
      [] n = "workout_planning" -> "evaluation"
      [] n = "scheduling" -> "evaluation"
      [] n = "evaluation" -> should_create_events(st)
      [] n = "calendar_integration" -> "END"

\* The node the graph runs after node n has returned state st.
Successor(n, st) ==
    CASE n = "medical_safety" -> "workout_planning"
      [] n = "workout_planning" -> "scheduling"
      [] n = "scheduling" -> "evaluation"
      [] n = "evaluation" -> should_create_events(st)
      [] n = "calendar_integration" -> "END"

\* An agent returns state st: the graph moves to the successor, a direct call
\* is over.
NodeReturns(st) ==
    /\ state' = st
    /\ IF mode = "graph" /\ Successor(node, st) # "END"
       THEN node' = Successor(node, st) /\ pc' = "begin"
       ELSE node' = node /\ pc' = "done"

\* (Mutant: the exception caught and the run reported as over.)
Raises_Swallowed(e, args) == pc' = "done" /\ error' = e /\ error_args' = args

\* An exception leaves the agent (and app.invoke).
Raises(e, args) == pc' = "failed" /\ error' = e /\ error_args' = args

\* ---------------------------------------------------------- initial states

\* What app.invoke is given: a user profile and a confirmation flag, either
\* of which a caller may leave out.
GraphInputs ==
    {[user_profile |-> up, user_confirmation |-> uc, medical_safety |-> None,
      workout_plan |-> None, schedule |-> None, evaluation |-> None,
      calendar_events |-> None] :
        up \in Opt(ProfilePool), uc \in Opt(BOOLEAN)}

\* The states an agent function is called on directly: every key present or
\* absent; the calendar agent also gets every schedule over the session pool.
StepInputs(n) ==
    {[user_profile |-> up, user_confirmation |-> uc, medical_safety |-> ms,
      workout_plan |-> wp, schedule |-> sc, evaluation |-> ev, calendar_events |-> ce] :
        up \in IF n = "calendar_integration" THEN Opt({ProfileA}) ELSE Opt(ProfilePool),
        uc \in Opt(BOOLEAN),
        ms \in Opt({ModelDump("MedicalSafetyOutput", MedicalOk1)}),
        wp \in Opt({ModelDump("WorkoutPlanOutput", PlanOk1)}),
        sc \in IF n = "calendar_integration"
               THEN Opt(RawSchedules \cup {ScheduleNoSessions})
               ELSE Opt({[scheduled_sessions |-> <<FlatDump(ScheduledSession, SessA)>>]}),
        ev \in Opt({ModelDump("EvaluationOutput", EvalOk1)}),
        ce \in Opt({<<create_calendar_event(SessB)[1]>>})}

\* A run starts: nothing has been called yet.
InitRun ==
    /\ init_state = state
    /\ pc = "begin"
    /\ invocation = 1
    /\ first_state = None
    /\ service_log = {}
    /\ max_retries = DefaultMaxRetries
    /\ attempt = 0
    /\ messages = <<>>
    /\ last_error = None
    /\ response = None
    /\ ret = None
    /\ created_events = <<>>
    /\ error = "none"
    /\ error_args = None
    /\ llm_calls = 0
    /\ run_llm_calls = 0
    /\ bad_responses = 0
    /\ adapter_calls = <<>>
    /\ calendar = <<>>
    /\ trail = <<>>

Init ==
    /\ mode \in {"graph", "step", "call"}
    /\ node \in CASE mode = "graph" -> {EntryPoint}
                  [] mode = "step" -> Nodes
                  [] mode = "call" -> LlmNodes
    /\ state \in CASE mode = "graph" -> GraphInputs
                   [] mode = "step" -> StepInputs(node)
                   [] mode = "call" -> {[k \in Keys |-> None]}
    /\ InitRun

\* The states an agent function is called on twice: those of StepInputs with
\* a profile that validates (or none), the keys the agent neither reads nor
\* writes being all present or all absent.
TwiceInputs(n) ==
    LET used == {OwnedKey(n)} \cup (IF n = "calendar_integration"
                                    THEN {"schedule", "user_confirmation"}
                                    ELSE PayloadKeys(n) \cup
                                         (IF ReadsProfile(n) THEN {"user_profile"} ELSE {}))
    IN  {st \in StepInputs(n) :
           /\ ReadsProfile(n) => st["user_profile"] \in Opt({ProfileA, ProfileB})
           /\ \A j, k \in Keys \ used : (st[j] = None) <=> (st[k] = None)}

\* An agent function about to be called twice.
TwiceInit ==
    /\ mode = "twice"
    /\ node \in Nodes
    /\ state \in TwiceInputs(node)
    /\ InitRun

\* ------------------------------------------------------------------ actions

\* _call_agent_with_retries, up to the loop: the conversation is built and
\* the loop is entered (or, with no iteration to run, falls through to the
\* raise).
EnterCall(R, user_payload) ==
    /\ max_retries' = R
    /\ messages' = InitialMessages(user_payload)
    /\ attempt' = 0
    /\ last_error' = None
    /\ response' = None
    /\ ret' = None
    /\ llm_calls' = 0
    /\ IF Attempts(R) > 0
       THEN pc' = "llm" /\ UNCHANGED <<error, error_args>>
       ELSE Raises("RuntimeError", RuntimeErrorArgs(None))

\* _call_agent_with_retries(prompt, payload, model, max_retries=R) called on
\* its own.
CallBegin(R) ==
    /\ mode = "call"
    /\ pc = "begin"
    /\ EnterCall(R, CallPayload)
    /\ trail' = Append(trail, node)
    /\ UNCHANGED <<mode, node, state, init_state, created_events, run_llm_calls,
                   bad_responses, adapter_calls, calendar, invocation, first_state,
                   service_log>>

\* medical_safety_agent, workout_planning_agent, scheduling_agent and
\* evaluation_agent, up to the call of _call_agent_with_retries.
AgentBegin ==
    /\ mode \in {"graph", "step", "twice"}
    /\ pc = "begin"
    /\ node \in LlmNodes
    /\ trail' = Append(trail, node)
    /\ IF Prelude(node, state) = "ok"
       THEN EnterCall(DefaultMaxRetries, Payload(node, state))
       ELSE /\ Raises(Prelude(node, state), PreludeArgs(node, state))
            /\ UNCHANGED <<max_retries, messages, attempt, last_error, response, ret,
                           llm_calls>>
    /\ UNCHANGED <<mode, node, state, init_state, created_events, run_llm_calls,
                   bad_responses, adapter_calls, calendar, invocation, first_state,
                   service_log>>

\* An agent function returns: its locals and those of the
\* _call_agent_with_retries it called are gone.
DropLocals ==
    /\ attempt' = 0
    /\ messages' = <<>>
    /\ last_error' = None
    /\ response' = None
    /\ ret' = None
    /\ llm_calls' = 0
    /\ created_events' = <<>>

\* One iteration of the retry loop, the service answering resp: llm.invoke,
\* which may raise (nothing catches that); then either the return (and with
\* it the rest of the agent: the write of its key and its return to the
\* graph), or the except block and, after the last iteration, the raise.
LlmAttempt(resp) ==
    /\ pc = "llm"
    /\ run_llm_calls' = run_llm_calls + 1
    /\ service_log' = IF mode = "twice"
                      THEN service_log \cup {[request |-> messages, response |-> resp]}
                      ELSE service_log
    /\ UNCHANGED <<mode, init_state, max_retries, adapter_calls, calendar, trail,
                   invocation, first_state>>
    /\ LET model == OutputModel(node)
           exc == AttemptError(model, resp)
       IN  IF resp.kind = "raise"
           THEN /\ Raises("TransportError", TransportErrorArgs)
                /\ llm_calls' = llm_calls + 1
                /\ bad_responses' = bad_responses + 1
                /\ UNCHANGED <<node, state, attempt, messages, last_error, response, ret,
                               created_events>>
           ELSE IF exc = None
           THEN LET output == ModelDump(model, Parse(resp)[1])
                IN  /\ IF mode = "call"
                       THEN /\ pc' = "done"
                            /\ ret' = Some([output |-> output,
                                            retries |-> RetryCount(attempt)])
                            /\ response' = Some(resp)
                            /\ llm_calls' = llm_calls + 1
                            /\ UNCHANGED <<node, state, attempt, messages, last_error,
                                           created_events>>
                       ELSE /\ NodeReturns([state EXCEPT ![OwnedKey(node)] = Some(output)])
                            /\ DropLocals
                    /\ UNCHANGED <<error, error_args, bad_responses>>
           ELSE /\ last_error' = RecordError(last_error, exc)
                /\ messages' = Append(messages, CorrectionMessage)
                /\ response' = Some(resp)
                /\ llm_calls' = llm_calls + 1
                /\ bad_responses' = bad_responses + 1
                /\ IF attempt + 1 < Attempts(max_retries)
                   THEN attempt' = attempt + 1 /\ UNCHANGED <<pc, error, error_args>>
                   ELSE /\ Raises("RuntimeError", RuntimeErrorArgs(last_error'))
                        /\ UNCHANGED attempt
                /\ UNCHANGED <<node, state, ret, created_events>>

\* (Mutant: the list walked from its end.)
NextSession_Reversed(sessions, created) == sessions[Len(sessions) - Len(created)]

\* The session the calendar loop passes to the Adapter next, `created` being
\* the events appended so far: the loop walks the list in order.
NextSession(sessions, created) == sessions[Len(created) + 1]

\* calendar_integration_agent, up to its loop: without confirmation it
\* writes an empty list and returns; with it, it reads the sessions.
CalendarBegin ==
    /\ mode \in {"graph", "step", "twice"}
    /\ pc = "begin"
    /\ node = "calendar_integration"
    /\ trail' = Append(trail, node)
    /\ UNCHANGED <<mode, init_state, max_retries, attempt, messages, last_error,
                   response, ret, llm_calls, run_llm_calls, bad_responses, adapter_calls,
                   calendar, invocation, first_state, service_log>>
    /\ IF ~Confirmed(state)
       THEN /\ NodeReturns([state EXCEPT !["calendar_events"] = Some(<<>>)])
            /\ UNCHANGED <<created_events, error, error_args>>
       ELSE IF state["schedule"] = None \/ "scheduled_sessions" \notin DOMAIN state["schedule"][1]
       THEN /\ Raises("KeyError", Some([key |-> IF state["schedule"] = None THEN "schedule"
                                                ELSE "scheduled_sessions"]))
            /\ UNCHANGED <<node, state, created_events>>
       ELSE /\ created_events' = <<>>
            /\ IF state["schedule"][1].scheduled_sessions = <<>>
               THEN NodeReturns([state EXCEPT !["calendar_events"] = Some(<<>>)])
                    /\ UNCHANGED <<error, error_args>>
               ELSE pc' = "tool" /\ UNCHANGED <<node, state, error, error_args>>

\* One iteration of the calendar loop: create_calendar_event on the next
\* session; after the last one the list is written and the agent returns.
CalendarItem ==
    /\ pc = "tool"
    /\ UNCHANGED <<mode, init_state, max_retries, run_llm_calls, bad_responses, trail,
                   invocation, first_state, service_log>>
    /\ LET sessions == state["schedule"][1].scheduled_sessions
           session == NextSession(sessions, created_events)
           event == create_calendar_event(session)
       IN  /\ adapter_calls' = Append(adapter_calls, session)
           /\ IF event = None
              THEN /\ Raises("KeyError", Some(create_calendar_event_KeyError(session)))
                   /\ UNCHANGED <<node, state, created_events, calendar, attempt, messages,
                                  last_error, response, ret, llm_calls>>
              ELSE /\ calendar' = Append(calendar, event[1])
                   /\ UNCHANGED <<error, error_args>>
                   /\ IF Len(created_events) + 1 = Len(sessions)
                      THEN /\ NodeReturns([state EXCEPT !["calendar_events"] =
                                                     Some(Append(created_events, event[1]))])
                           /\ DropLocals
                      ELSE /\ created_events' = Append(created_events, event[1])
                           /\ UNCHANGED <<node, pc, state, attempt, messages, last_error,
                                          response, ret, llm_calls>>

\* A deterministic service answers a request it has answered before as it
\* did then.
Deterministic(request, resp) ==
    \A e \in service_log : e.request = request => e.response = resp

\* An iteration of the retry loop, for whatever the service answers.
LlmStep ==
    /\ pc = "llm"
    /\ \E resp \in Responses(OutputModel(node)) :
          Deterministic(messages, resp) /\ LlmAttempt(resp)

Next ==
    \/ \E R \in 0..MaxR : CallBegin(R)
    \/ AgentBegin
    \/ LlmStep
    \/ CalendarBegin
    \/ CalendarItem

Spec == Init /\ [][Next]_vars

\* The caller calls the agent function a second time once the first call has
\* returned: on the dict the first call returned (the agents return the dict
\* they were given, modified in place), or on an equal copy of the state the
\* first call was given.
Reinvoke ==
    /\ mode = "twice"
    /\ pc = "done"
    /\ invocation = 1
    /\ invocation' = 2
    /\ first_state' = Some(state)
    /\ state' \in {state, init_state}
    /\ pc' = "begin"
    /\ UNCHANGED <<mode, node, init_state, max_retries, attempt, messages, last_error,
                   response, ret, created_events, error, error_args, llm_calls,
                   run_llm_calls, bad_responses, adapter_calls, calendar, trail,
                   service_log>>

TwiceNext ==
    \/ AgentBegin
    \/ LlmStep
    \/ CalendarBegin
    \/ CalendarItem
    \/ Reinvoke

\* An agent function called twice, the service being deterministic.
TwiceSpec == TwiceInit /\ [][TwiceNext]_vars

\* ------------------------------------------------------------------- claims

\* The corrective messages appended to a conversation.
Corrections(msgs) == Cardinality({i \in DOMAIN msgs : msgs[i] = CorrectionMessage})

\* The last answer of the service was a payload that parses and validates
\* against the output model of the current call.
LastResponseValid ==
    /\ response # None
    /\ response[1].kind # "raise"
    /\ AttemptError(OutputModel(node), response[1]) = None

\* C1: while the service has answered every call of one invocation of
\* _call_agent_with_retries invalidly (the loop is still running, or it has
\* raised the output-invalid RuntimeError), every call made so far was
\* followed by a corrective message, at most max_retries + 1 calls were made,
\* and the invocation has failed with RuntimeError exactly when it has made
\* max_retries + 1 calls; it then has returned no payload.
C1_ExhaustsAfterRPlus1 ==
    (pc = "llm" \/ error = "RuntimeError") =>
        /\ Corrections(messages) = llm_calls
        /\ llm_calls <= max_retries + 1
        /\ (llm_calls = max_retries + 1) <=> (error = "RuntimeError")
        /\ error = "RuntimeError" => pc = "failed" /\ ret = None /\ last_error # None

C1_Witness ==
    /\ mode = "call"
    /\ max_retries = MaxR
    /\ error = "RuntimeError"
    /\ llm_calls = MaxR + 1

\* C2: an invocation of _call_agent_with_retries that has returned did so
\* with a retry count k <= max_retries equal to the number of calls made
\* before the accepted one and to the number of corrective messages in the
\* conversation (which then holds 2 + k messages); and an invocation whose
\* last answer is a valid payload has returned, with the normalized payload.
C2_SuccessAfterKInvalid ==
    /\ ret # None =>
          /\ ret[1].retries = llm_calls - 1
          /\ ret[1].retries <= max_retries
          /\ Corrections(messages) = ret[1].retries
          /\ Len(messages) = 2 + ret[1].retries
    /\ (mode = "call" /\ LastResponseValid) =>
          /\ pc = "done"
          /\ ret # None
          /\ ret[1].output = ModelDump(OutputModel(node), Parse(response[1])[1])

C2_Witness ==
    /\ mode = "call"
    /\ ret # None
    /\ ret[1].retries = 1
    /\ llm_calls = 2
    /\ Corrections(messages) = 1

\* Node n has been executed (at least begun) since the start.
Visited(n) == \E i \in DOMAIN trail : trail[i] = n

\* C3 as claimed: in a run of the graph started with user_confirmation =
\* false the Adapter is never invoked and, once the run is over, the state
\* holds calendar_events = [].
C3_Original ==
    (mode = "graph" /\ init_state["user_confirmation"] = Some(FALSE)) =>
        /\ adapter_calls = <<>>
        /\ pc = "done" => state["calendar_events"] = Some(<<>>)

\* C3, amended: from a state with user_confirmation = false the Adapter is
\* never invoked; a run of the graph never executes the calendar agent and
\* never writes calendar_events (the conditional edge ends the run after
\* evaluation), while the calendar agent called directly returns with
\* calendar_events = [].
C3_NoConfirmationNoEvents ==
    init_state["user_confirmation"] = Some(FALSE) =>
        /\ adapter_calls = <<>>
        /\ calendar = <<>>
        /\ mode = "graph" =>
              /\ ~Visited("calendar_integration")
              /\ state["calendar_events"] = None
        /\ (mode = "step" /\ node = "calendar_integration" /\ pc # "begin") =>
              /\ pc = "done"
              /\ state["calendar_events"] = Some(<<>>)

C3_Witness ==
    /\ mode = "graph"
    /\ init_state["user_confirmation"] = Some(FALSE)
    /\ pc = "done"
    /\ state["evaluation"] # None

\* C4: once the calendar agent has read the N sessions of the schedule of a
\* confirmed state, the sessions passed to the Adapter so far are the first
\* sessions of the schedule, in order; if the Adapter accepts every session
\* the agent does not fail; and when it has returned, the Adapter was
\* invoked N times and calendar_events is the list whose i-th entry is the
\* Adapter's result for the i-th session.
C4_OneEventPerSession ==
    (/\ node = "calendar_integration"
     /\ pc # "begin"
     /\ Confirmed(state)
     /\ state["schedule"] # None
     /\ "scheduled_sessions" \in DOMAIN state["schedule"][1]) =>
        LET sessions == state["schedule"][1].scheduled_sessions
            n == Len(adapter_calls)
        IN  /\ n <= Len(sessions)
            /\ adapter_calls = SubSeq(sessions, 1, n)
            /\ (\A i \in DOMAIN sessions : create_calendar_event(sessions[i]) # None)
                  => pc # "failed"
            /\ pc = "done" =>
                  /\ n = Len(sessions)
                  /\ state["calendar_events"] =
                        Some([i \in DOMAIN sessions |-> create_calendar_event(sessions[i])[1]])

C4_Witness ==
    /\ mode = "graph"
    /\ node = "calendar_integration"
    /\ pc = "done"
    /\ Confirmed(state)
    /\ Len(adapter_calls) = 2
    /\ adapter_calls[1] # adapter_calls[2]
    /\ Len(state["calendar_events"][1]) = 2

\* The profile the run was started with is present and validates.
ValidProfile ==
    /\ init_state["user_profile"] # None
    /\ Violations("UserProfile", init_state["user_profile"][1]) = {}

\* The outputs of the four LLM agents are in the state.
StepOutputsPresent ==
    \A k \in {"medical_safety", "workout_plan", "schedule", "evaluation"} : state[k] # None

\* A run of the graph on a valid profile in which the service has so far
\* answered every call with a valid payload.
CleanRun == mode = "graph" /\ ValidProfile /\ bad_responses = 0

\* C5: a run of the graph on a valid profile, the service answering every
\* call with a schema-conformant payload, never fails; until it is over it
\* can always take a next step, and it takes only boundedly many (each node
\* at most once, one service call per LLM agent: no retry), so it
\* terminates; and it ends with medical_safety, workout_plan, schedule and
\* evaluation in the final state, having made exactly four service calls.
C5_CleanRunSucceeds ==
    CleanRun =>
        /\ pc # "failed"
        /\ error = "none"
        /\ pc # "done" => ENABLED Next
        /\ Len(trail) <= Cardinality(Nodes)
        /\ run_llm_calls <= Cardinality(LlmNodes)
        /\ attempt = 0
        /\ Corrections(messages) = 0
        /\ pc = "done" =>
              /\ StepOutputsPresent
              /\ run_llm_calls = Cardinality(LlmNodes)

C5_Witness ==
    /\ CleanRun
    /\ pc = "done"
    /\ StepOutputsPresent
    /\ run_llm_calls = Cardinality(LlmNodes)
    /\ init_state["user_confirmation"] = Some(TRUE)
    /\ state["calendar_events"] # None

\* C6: a step is only ever taken while no exception has been raised, so
\* after a failure no later node is executed and no further service or
\* Adapter call is made; a raised exception always leaves the run failed,
\* never over; the failing step writes no key and leaves the failing node
\* current; and a run of the graph that is over without failure holds the
\* outputs of all four LLM agents, not a part of them.
C6_FailureHalts ==
    [][/\ error = "none"
       /\ pc # "failed"
       /\ (pc' = "failed") <=> (error' # "none")
       /\ pc' = "failed" =>
             /\ state' = state
             /\ node' = node
       /\ (mode = "graph" /\ pc' = "done") => StepOutputsPresent']_vars

C6_Witness ==
    /\ mode = "graph"
    /\ pc = "failed"
    /\ error = "RuntimeError"
    /\ node = "workout_planning"
    /\ state["medical_safety"] # None
    /\ state["workout_plan"] = None
    /\ trail = <<"medical_safety", "workout_planning">>

\* The one key each node may write, as the claim has it.
ClaimedOwner(n) ==
    CASE n = "medical_safety" -> "medical_safety"
      [] n = "workout_planning" -> "workout_plan"
      [] n = "scheduling" -> "schedule"
      [] n = "evaluation" -> "evaluation"
      [] n = "calendar_integration" -> "calendar_events"

\* C7: in a run of the graph, a step never deletes or changes the value of a
\* key that has one, and the only key a step changes is the one owned by the
\* node that is executing.
C7_StateOnlyGrows ==
    [][mode = "graph" =>
         /\ \A k \in Keys : state[k] # None => state'[k] = state[k]
         /\ \A k \in Keys : state'[k] # state[k] => k = ClaimedOwner(node)]_vars

C7_Witness ==
    /\ mode = "graph"
    /\ pc = "done"
    /\ \A k \in Keys : state[k] # None
    /\ state["calendar_events"] # Some(<<>>)

\* The llm.invoke calls of the current invocation that raised: each call
\* that was answered invalidly left a corrective message, a call that raised
\* did not.
TransportFailures == llm_calls - Corrections(messages)

\* C8 as claimed: a transport failure is retried under a budget of its own,
\* so a call is aborted by a transport failure only after more than one of
\* its llm.invoke calls has raised.
C8_Original == error = "TransportError" => TransportFailures >= 2

\* The keys each node reads, as the claim has them.
ClaimedReads(n) ==
    CASE n = "medical_safety" -> {"user_profile"}
      [] n = "workout_planning" -> {"user_profile", "medical_safety"}
      [] n = "scheduling" -> {"user_profile", "workout_plan"}
      [] n = "evaluation" -> {"medical_safety", "workout_plan", "schedule"}
      [] n = "calendar_integration" -> {"schedule", "user_confirmation"}

\* The agent raised before calling the service or the Adapter and before
\* writing any key.
FailedFast ==
    /\ pc = "failed"
    /\ error \in {"KeyError", "ValidationError"}
    /\ error = "ValidationError" => init_state["user_profile"] # None
    /\ state = init_state
    /\ run_llm_calls = 0
    /\ adapter_calls = <<>>

\* C9 as claimed: an agent called on a state that lacks a key it reads
\* (user_confirmation included, for the calendar agent) fails fast.
C9_Original ==
    (/\ mode = "step"
     /\ pc # "begin"
     /\ \E k \in ClaimedReads(node) : init_state[k] = None) => FailedFast

\* C9, amended: an LLM agent called on a state that lacks a key it reads
\* fails fast (KeyError, or the ValidationError of a present but invalid
\* profile, which is checked first); so does the calendar agent when
\* user_confirmation is true and schedule is absent. An absent
\* user_confirmation counts as false: the calendar agent then returns with
\* calendar_events = [] and nothing else changed, without reading the
\* schedule or invoking the Adapter.
C9_MissingInputs ==
    (mode = "step" /\ pc # "begin") =>
        /\ (node \in LlmNodes /\ \E k \in ClaimedReads(node) : init_state[k] = None)
              => FailedFast
        /\ (/\ node = "calendar_integration"
            /\ init_state["user_confirmation"] = Some(TRUE)
            /\ init_state["schedule"] = None) => FailedFast /\ error = "KeyError"
        /\ (node = "calendar_integration" /\ init_state["user_confirmation"] # Some(TRUE)) =>
              /\ pc = "done"
              /\ state = [init_state EXCEPT !["calendar_events"] = Some(<<>>)]
              /\ adapter_calls = <<>>
              /\ run_llm_calls = 0

C9_Witness ==
    /\ mode = "step"
    /\ node = "calendar_integration"
    /\ init_state["user_confirmation"] = None
    /\ init_state["schedule"] = None
    /\ init_state["calendar_events"] # None
    /\ pc = "done"
    /\ state["calendar_events"] = Some(<<>>)

\* A session without duration_minutes (absent, or null), and a session with
\* every field the Adapter uses.
LacksDuration(session) ==
    "duration_minutes" \notin DOMAIN session \/ session.duration_minutes = "null"
Complete(session) ==
    /\ {"date", "start_time", "duration_minutes", "session_name"} \subseteq DOMAIN session
    /\ session.duration_minutes # "null"

\* C10: when the calendar agent has run (to its return or its failure) on a
\* confirmed state whose k-th session lacks duration_minutes, the sessions
\* before it being complete, it has failed with KeyError; the Adapter was
\* passed the first k sessions and no later one; the state is as it was
\* (calendar_events not written); and the k-1 events created for the earlier
\* sessions are still there.
C10_AdapterFailureHalts ==
    (/\ node = "calendar_integration"
     /\ pc \in {"done", "failed"}
     /\ init_state["user_confirmation"] = Some(TRUE)
     /\ init_state["schedule"] # None
     /\ "scheduled_sessions" \in DOMAIN init_state["schedule"][1]) =>
        LET sessions == init_state["schedule"][1].scheduled_sessions
        IN  \A k \in DOMAIN sessions :
                (LacksDuration(sessions[k]) /\ \A i \in 1..(k - 1) : Complete(sessions[i])) =>
                    /\ pc = "failed"
                    /\ error = "KeyError"
                    /\ adapter_calls = SubSeq(sessions, 1, k)
                    /\ state = init_state
                    /\ calendar = [i \in 1..(k - 1) |-> create_calendar_event(sessions[i])[1]]
                    /\ created_events = calendar

C10_Witness ==
    /\ node = "calendar_integration"
    /\ pc = "failed"
    /\ Len(adapter_calls) = 2
    /\ LacksDuration(adapter_calls[2])
    /\ Len(calendar) = 1
    /\ state["calendar_events"] = init_state["calendar_events"]

\* C11: an agent function called a second time, on the state its first call
\* returned or on a copy of the state its first call was given, the service
\* answering equal requests equally, does not fail, runs to its return, and
\* returns a state with the same value under the agent's own key as the
\* first call returned and every other key as it was in the input; the
\* first call, too, changes no key but the agent's own.
C11_StepIdempotent ==
    (mode = "twice" /\ pc # "begin") =>
        /\ pc = "done" =>
              \A k \in Keys \ {ClaimedOwner(node)} : state[k] = init_state[k]
        /\ invocation = 2 =>
              /\ pc # "failed"
              /\ error = "none"
              /\ pc # "done" => ENABLED TwiceNext
              /\ pc = "done" =>
                    state[ClaimedOwner(node)] = first_state[1][ClaimedOwner(node)]

C11_Witness ==
    /\ mode = "twice"
    /\ node = "scheduling"
    /\ invocation = 2
    /\ pc = "done"
    /\ run_llm_calls = 4
    /\ init_state["schedule"] # None
    /\ state["schedule"] # init_state["schedule"]
    /\ state = first_state[1]

\* The fields each schema declares (all required) and the closed sets of its
\* enumerated fields, as the claim has them.
ClaimedFields(model) ==
    CASE model = "MedicalSafetyOutput" ->
             {"risk_level", "contraindicated_exercises", "recommended_focus_areas",
              "warnings"}
      [] model = "WorkoutPlanOutput" -> {"plan_type", "weekly_sessions", "session_templates"}
      [] model = "SessionTemplate" ->
             {"name", "duration_minutes", "exercise_categories", "intensity"}
      [] model = "SchedulingOutput" -> {"scheduled_sessions"}
      [] model = "ScheduledSession" ->
             {"date", "start_time", "duration_minutes", "session_name"}
      [] model = "EvaluationOutput" -> {"scores", "issues", "verdict"}
      [] model = "EvaluationScores" ->
             {"safety", "goal_alignment", "realism", "schedule_fit", "clarity"}
ClaimedEnums ==
    [risk_level |-> {"low", "medium", "high"}, intensity |-> {"low", "medium", "high"},
     plan_type |-> {"strength", "cardio", "hybrid", "rehab"},
     verdict |-> {"pass", "review", "fail"}]

MissesField(model, obj) == ClaimedFields(model) \ DOMAIN obj # {}
HasExtraField(model, obj) == DOMAIN obj \ ClaimedFields(model) # {}
HasBadEnum(model, obj) ==
    \E f \in DOMAIN ClaimedEnums \cap ClaimedFields(model) \cap DOMAIN obj :
        obj[f] \notin ClaimedEnums[f]
ObjectDefect(model, obj) ==
    MissesField(model, obj) \/ HasExtraField(model, obj) \/ HasBadEnum(model, obj)

\* Payload p, offered as an instance of `model`, misses a required field, has
\* an enumerated field outside its closed set or has an undeclared field, in
\* itself or in one of its nested objects.
Defective(model, p) ==
    \/ ObjectDefect(model, p)
    \/ /\ model = "WorkoutPlanOutput"
       /\ "session_templates" \in DOMAIN p
       /\ \E i \in DOMAIN p.session_templates :
             ObjectDefect("SessionTemplate", p.session_templates[i])
    \/ /\ model = "SchedulingOutput"
       /\ "scheduled_sessions" \in DOMAIN p
       /\ \E i \in DOMAIN p.scheduled_sessions :
             ObjectDefect("ScheduledSession", p.scheduled_sessions[i])
    \/ /\ model = "EvaluationOutput"
       /\ "scores" \in DOMAIN p
       /\ ObjectDefect("EvaluationScores", p.scores)

\* The output model of the agent that owns a key of the state.
ClaimedModel(k) ==
    CASE k = "medical_safety" -> "MedicalSafetyOutput"
      [] k = "workout_plan" -> "WorkoutPlanOutput"
      [] k = "schedule" -> "SchedulingOutput"
      [] k = "evaluation" -> "EvaluationOutput"

\* C12: a payload of the service that misses a required field, has an
\* enumerated field outside its closed set or has an undeclared field is
\* rejected: the attempt that received it ended in the except block (a
\* ValidationError recorded as last_error, one corrective message appended
\* for this call like for every earlier one, the call not returned; a later
\* llm.invoke that raises appends none), no step
\* output in the state of a run of the graph and no payload returned by
\* _call_agent_with_retries has such a defect, and a ValidationError names a
\* violation of the matching kind for a top-level defect.
C12_DefectivePayloadRejected ==
    /\ (/\ response # None
        /\ Parse(response[1]) # None
        /\ Defective(ClaimedModel(ClaimedOwner(node)), Parse(response[1])[1])) =>
          LET model == ClaimedModel(ClaimedOwner(node))
              p == Parse(response[1])[1]
              kinds == IF last_error = None THEN {}
                       ELSE {e.kind : e \in {v \in last_error[1].errors : v.sub = ""}}
          IN  /\ pc \in {"llm", "failed"}
              /\ ret = None
              /\ last_error # None
              /\ last_error[1].type = "ValidationError"
              /\ Corrections(messages) >= 1
              /\ error # "TransportError" => Corrections(messages) = llm_calls
              /\ messages[Len(messages)] = CorrectionMessage
              /\ bad_responses >= llm_calls
              /\ MissesField(model, p) => "missing" \in kinds
              /\ HasExtraField(model, p) => "extra_forbidden" \in kinds
              /\ HasBadEnum(model, p) => "invalid" \in kinds
    /\ mode = "graph" =>
          \A k \in {"medical_safety", "workout_plan", "schedule", "evaluation"} :
              state[k] # None => ~Defective(ClaimedModel(k), state[k][1])
    /\ ret # None => ~Defective(ClaimedModel(ClaimedOwner(node)), ret[1].output)

C12_Witness ==
    /\ mode = "graph"
    /\ node = "medical_safety"
    /\ pc = "llm"
    /\ attempt = 1
    /\ response # None
    /\ Parse(response[1]) # None
    /\ MissesField("MedicalSafetyOutput", Parse(response[1])[1])
    /\ HasExtraField("MedicalSafetyOutput", Parse(response[1])[1])
    /\ HasBadEnum("MedicalSafetyOutput", Parse(response[1])[1])
    /\ state["medical_safety"] = None
    /\ Corrections(messages) = 1

\* What an exception says points at step n: it carries the name of the node,
\* or the name of the output model of n (in the text of a validation error),
\* or the Adapter's own message (only the calendar step invokes the
\* Adapter).
NamesStep(args, n) ==
    \/ "node" \in DOMAIN args /\ args.node = n
    \/ /\ n \in LlmNodes
       /\ "last_error" \in DOMAIN args
       /\ args.last_error # None
       /\ "title" \in DOMAIN args.last_error[1]
       /\ args.last_error[1].title = ClaimedModel(ClaimedOwner(n))
    \/ /\ n = "calendar_integration"
       /\ "message" \in DOMAIN args
       /\ args.message = "duration_minutes is required to create a calendar event"

\* C13 as claimed: when a run of the graph has failed, what the exception
\* that reaches the caller says identifies the step that failed.
C13_Original ==
    (mode = "graph" /\ pc = "failed") => error_args # None /\ NamesStep(error_args[1], node)

\* The answer the service gave to the request of attempt number a (counting
\* from 0) of the first call, as the log has it.
LoggedAnswers(a) == {e.response : e \in {x \in service_log : Corrections(x.request) = a}}

\* C14: when _call_agent_with_retries has raised its RuntimeError, the
\* exception carries the message prefix and the error of the last attempt
\* (attempt number max_retries, the (max_retries + 1)-th), that is, the error
\* the answer to the last request produces, which is also what last_error
\* holds.
C14_CarriesLastError ==
    error = "RuntimeError" =>
        /\ error_args # None
        /\ error_args[1].message = "Agent output validation failed: "
        /\ error_args[1].last_error = last_error
        /\ \E r \in LoggedAnswers(max_retries) :
              /\ LoggedAnswers(max_retries) = {r}
              /\ r = response[1]
              /\ error_args[1].last_error = AttemptError(ClaimedModel(ClaimedOwner(node)), r)

C14_Witness ==
    /\ error = "RuntimeError"
    /\ node = "workout_planning"
    /\ \E first \in LoggedAnswers(0) :
          /\ AttemptError("WorkoutPlanOutput", first) # None
          /\ AttemptError("WorkoutPlanOutput", first) # error_args[1].last_error
    /\ error_args[1].last_error # None
    /\ error_args[1].last_error[1].type = "ValidationError"

\* States that agree with st on user_confirmation and differ from it in the
\* evaluation (every verdict, or none) and in other keys.
AgreeingStates(st) ==
    {[st EXCEPT !["evaluation"] = ev, !["medical_safety"] = ms, !["calendar_events"] = ce,
                !["schedule"] = sc] :
        ev \in Opt({[EvalOk1 EXCEPT !.verdict = v] : v \in {"pass", "review", "fail"}}),
        ms \in Opt({MedicalOk1, MedicalOk2}),
        ce \in Opt({<<>>}),
        sc \in Opt({[scheduled_sessions |-> <<>>]})}

\* C15: when the evaluation agent returns in a run of the graph, the run
\* goes on to the calendar agent if user_confirmation is true and is over
\* otherwise, whatever the verdict; the predicate selects the same successor
\* for every state that agrees with the current one on user_confirmation,
\* whatever its verdict and other keys; and the step changes no key but
\* evaluation (the predicate writes nothing).
C15_BranchOnConfirmationOnly ==
    [][(mode = "graph" /\ node = "evaluation" /\ pc = "llm" /\ pc' \in {"begin", "done"}) =>
         /\ state'["user_confirmation"] = Some(TRUE) =>
               node' = "calendar_integration" /\ pc' = "begin"
         /\ state'["user_confirmation"] # Some(TRUE) => node' = node /\ pc' = "done"
         /\ \A k \in Keys \ {"evaluation"} : state'[k] = state[k]
         /\ \A st \in AgreeingStates(state') :
               should_create_events(st) =
                   (IF state'["user_confirmation"] = Some(TRUE)
                    THEN "calendar_integration" ELSE "END")]_vars

C15_Witness ==
    /\ mode = "graph"
    /\ node = "calendar_integration"
    /\ pc = "begin"
    /\ state["evaluation"] # None
    /\ state["evaluation"][1].verdict = "fail"
    /\ state["user_confirmation"] = Some(TRUE)

\* The order of the steps, as the claim has it.
ClaimedOrder ==
    <<"medical_safety", "workout_planning", "scheduling", "evaluation",
      "calendar_integration">>

\* C16: in a run of the graph the nodes executed so far are the first nodes
\* of the fixed order, each once; the node being (or about to be) executed
\* is the one the order has at that place; every node but the first was
\* started with the key of its predecessor written; and the calendar agent
\* is executed only with evaluation written and user_confirmation true.
C16_FixedOrder ==
    mode = "graph" =>
        LET n == Len(trail)
        IN  /\ n <= Len(ClaimedOrder)
            /\ trail = SubSeq(ClaimedOrder, 1, n)
            /\ pc = "begin" => n < Len(ClaimedOrder) /\ node = ClaimedOrder[n + 1]
            /\ pc # "begin" => n >= 1 /\ node = ClaimedOrder[n]
            /\ \A i \in 2..(IF pc = "begin" THEN n + 1 ELSE n) :
                  state[ClaimedOwner(ClaimedOrder[i - 1])] # None
            /\ Visited("calendar_integration") =>
                  /\ state["evaluation"] # None
                  /\ state["user_confirmation"] = Some(TRUE)

C16_Witness ==
    /\ mode = "graph"
    /\ pc = "done"
    /\ trail = ClaimedOrder
    /\ state["calendar_events"] # None
    /\ Len(state["calendar_events"][1]) = 1

\* The steps taken since the start: each action executes a node, calls the
\* service or calls the Adapter.
Steps == Len(trail) + run_llm_calls + Len(adapter_calls)

\* The run is over, or it can take a step.
OverOrCanStep == pc \in {"done", "failed"} \/ ENABLED Next

\* C17: in a run of the graph every step adds one to the count of nodes
\* executed, service calls made and Adapter calls made, and these stay
\* bounded: at most five nodes, each LLM agent invoking
\* _call_agent_with_retries at most once with at most max_retries + 1 calls,
\* so at most 4 * (max_retries + 1) service calls in all (12 with the
\* default), and at most one Adapter call per scheduled session; and after
\* every step the run is over or can take another step: it terminates.
C17_Terminates ==
    [][mode = "graph" =>
         /\ Steps' = Steps + 1
         /\ Len(trail') <= Cardinality(Nodes)
         /\ llm_calls' <= max_retries' + 1
         /\ run_llm_calls' <= 4 * (max_retries' + 1)
         /\ max_retries' = 2 => run_llm_calls' <= 12
         /\ run_llm_calls' <= (max_retries' + 1) *
                                 Cardinality({i \in DOMAIN trail' : trail'[i] \in LlmNodes})
         /\ adapter_calls' # <<>> =>
               Len(adapter_calls') <= Len(state'["schedule"][1].scheduled_sessions)
         /\ OverOrCanStep']_vars

C17_Witness ==
    /\ mode = "graph"
    /\ pc = "failed"
    /\ error = "RuntimeError"
    /\ node = "evaluation"
    /\ run_llm_calls = 12

\* C18: in a run of the graph started with user_confirmation false or
\* absent, the calendar agent is never executed, calendar_events is never
\* written, and the run, when over, ended at evaluation after the four LLM
\* agents; and whenever the calendar agent has returned from a state without
\* confirmation (having written the empty list), it was called directly,
\* not by the graph.
C18_NoConfirmationEndsAtEvaluation ==
    /\ (mode = "graph" /\ init_state["user_confirmation"] # Some(TRUE)) =>
          /\ ~Visited("calendar_integration")
          /\ node # "calendar_integration"
          /\ state["calendar_events"] = None
          /\ adapter_calls = <<>>
          /\ pc = "done" =>
                /\ node = "evaluation"
                /\ trail = <<"medical_safety", "workout_planning", "scheduling", "evaluation">>
                /\ state["evaluation"] # None
    /\ (/\ Visited("calendar_integration")
        /\ pc = "done"
        /\ init_state["user_confirmation"] # Some(TRUE)) =>
          /\ mode = "step"
          /\ state["calendar_events"] = Some(<<>>)

C18_Witness ==
    /\ mode = "graph"
    /\ init_state["user_confirmation"] = None
    /\ pc = "done"
    /\ node = "evaluation"
    /\ state["calendar_events"] = None
    /\ state["schedule"] # None
    /\ state["schedule"][1].scheduled_sessions # <<>>

\* C19: in a run of the graph every session of the schedule in the state,
\* and so every session passed to the Adapter, has date, start_time,
\* duration_minutes (not null) and session_name and nothing else; the
\* calendar agent, once started, never fails: until it returns it can take
\* its next step, it passes the sessions in order, and it returns with one
\* event per scheduled session.
C19_AdapterFailureUnreachable ==
    mode = "graph" =>
        /\ state["schedule"] # None =>
              /\ "scheduled_sessions" \in DOMAIN state["schedule"][1]
              /\ \A i \in DOMAIN state["schedule"][1].scheduled_sessions :
                    LET session == state["schedule"][1].scheduled_sessions[i]
                    IN  /\ Complete(session)
                        /\ ~ObjectDefect("ScheduledSession", session)
        /\ \A i \in DOMAIN adapter_calls :
              /\ Complete(adapter_calls[i])
              /\ adapter_calls[i] = state["schedule"][1].scheduled_sessions[i]
        /\ error = "KeyError" => node = "medical_safety"
        /\ (node = "calendar_integration" /\ pc # "begin") =>
              /\ pc \in {"tool", "done"}
              /\ pc = "tool" => ENABLED CalendarItem
              /\ pc = "done" =>
                    /\ state["calendar_events"] # None
                    /\ Len(state["calendar_events"][1]) =
                           Len(state["schedule"][1].scheduled_sessions)
                    /\ Len(adapter_calls) = Len(state["schedule"][1].scheduled_sessions)
                    /\ calendar = state["calendar_events"][1]

C19_Witness ==
    /\ mode = "graph"
    /\ node = "calendar_integration"
    /\ pc = "done"
    /\ Len(adapter_calls) = 2
    /\ adapter_calls[2].duration_minutes = "45"
    /\ bad_responses > 0

\* C20: whenever a call of _call_agent_with_retries is about to send a
\* request, whatever earlier steps of the run have consumed, the request is
\* the system message and the payload message followed by exactly as many
\* corrective messages as this call has had failed attempts (none on
\* attempt 0), the attempt number counts this call's own service calls
\* only, it is at most max_retries, and the call can send the request; and a
\* call gives up only after max_retries + 1 service calls of its own.
C20_FreshConversationAndBudget ==
    /\ pc = "llm" =>
          /\ attempt = llm_calls
          /\ attempt <= max_retries
          /\ Len(messages) = 2 + attempt
          /\ messages[1] = SystemMessage
          /\ messages[2].role = "human"
          /\ messages[2] # CorrectionMessage
          /\ \A i \in 3..Len(messages) : messages[i] = CorrectionMessage
          /\ Corrections(messages) = attempt
          /\ mode = "graph" => messages[2].content = Payload(node, state)
          /\ mode # "call" => max_retries = 2
          /\ ENABLED LlmStep
    /\ error = "RuntimeError" =>
          /\ llm_calls = max_retries + 1
          /\ Corrections(messages) = max_retries + 1

C20_Witness ==
    /\ mode = "graph"
    /\ node = "scheduling"
    /\ pc = "llm"
    /\ run_llm_calls = 8
    /\ attempt = 2
    /\ Corrections(messages) = 2

====
